---- MODULE Spec2Model ----
(***************************************************************************)
(* Model of src/src/send_applies.py: a pool of asyncio workers that drain  *)
(* an asyncio.Queue of page indices, apply to every eligible vacancy of a  *)
(* page and record the successful applies in Notion.                       *)
(*                                                                         *)
(* asyncio runs the tasks on one thread: a task runs without interruption  *)
(* from one suspension to the next.  The suspensions of a worker are the   *)
(* queue.get() on an empty queue and the three HTTP calls; those of main   *)
(* are queue.join() and asyncio.gather().  Each action below is one such   *)
(* uninterrupted run.                                                      *)
(***************************************************************************)
EXTENDS Integers, Sequences, FiniteSets, TLC

\* Bounds of the model.
MaxWorkers == 2
MaxPages == 3
MaxItems == 2

Workers == 1..MaxWorkers
Pages == 0..(MaxPages - 1)
Idxs == 0..(MaxItems - 1)

\* The task that runs main(), as the author of a queue.put.
MainTask == 0
\* The local `page` of a worker that holds no unit.
NoPage == -1
\* Python's None, as the empty option.
None == <<>>

Some(x) == <<x>>

Range(s) == {s[i] : i \in DOMAIN s}

\* A vacancy of a listing page, by what the two blacklists say about it.
Vacancy == [words : BOOLEAN, ids : BOOLEAN]

ItemLists == UNION {[1..n -> Vacancy] : n \in 0..MaxItems}

\* Responses of the listing transport (GET).
ListingResponses ==
    {[status |-> 500, pages |-> 0, items |-> <<>>]}
        \cup [status : {200}, pages : 0..MaxPages, items : ItemLists]

\* Responses of the action transport (POST negotiations).
\* A 201 carries a Location header or none, a 303 one; the body of a 400
\* or 403 lists the values of its errors, 'limit_exceeded' among them or
\* not.
ApplyResponses ==
    [status : {201}, errors : {<<>>}, location : {"", "url"}]
        \cup [status : {303}, errors : {<<>>}, location : {"url"}]
        \cup [status : {400, 403},
              errors : {<<"limit_exceeded">>, <<"already_applied">>},
              location : {""}]
        \cup [status : {500}, errors : {<<>>}, location : {""}]

\* The responses apply_to_vacancy is checked on as a function: any of
\* these statuses, with up to MaxErrors errors and a Location header or
\* none.
MaxErrors == 2

ErrorValues == {"limit_exceeded", "already_applied", "test_required"}

AnyApplyResponses ==
    [status : {200, 201, 303, 400, 403, 404, 429, 500},
     errors : UNION {[1..n -> ErrorValues] : n \in 0..MaxErrors},
     location : {"", "url"}]

\* Responses of the recording transport (POST pages).
NotionResponses == {200, 500}

\* The ways a worker task ends: the exception it finishes with.
Terminated ==
    {"QueueShutDown", "CancelledError", "ValueError",
     "FetchError", "ApplyError", "NotionError"}

\* The members of SearchType.
SearchType == {"similar", "query"}

\* The values of main's argument `search` the model runs with: a member
\* of SearchType, or a value that is none.  "query" takes the steps of
\* "similar" with another URL and other parameters, which the model has
\* not.
Searches == {"similar", "other"}

VARIABLES
    workers_num,        \* main's argument
    test_run,           \* main's argument
    search,             \* main's argument
    notion_enabled,     \* settings.notion_enabled
    mainpc,             \* where main() is
    queue,              \* the queue's items, oldest first
    unfinished_tasks,   \* the queue's count of units put and not yet done
    is_shutdown,        \* the queue was shut down
    join_woken,         \* the queue's finished event has woken main's join()
    pc,                 \* per worker: where it is suspended, or how it ended
    page,               \* per worker: the unit it holds
    vacancies,          \* per worker: the items of its page
    idx,                \* per worker: the item it is at
    visited,            \* per worker: what the loop logged for each item so far
    applied,            \* per worker: the apply response behind its Notion request
    puts,               \* history: per page, the tasks that enqueued it, in order
    gets,               \* history: per page, the workers that dequeued it, in order
    fetches,            \* history: per page, the listing requests issued
    dones,              \* history: per page, the task_done calls
    pages,              \* history: the page counts page 0 reported
    actions,            \* history: per page and item, the apply requests issued
    records,            \* history: per page and item, the Notion requests issued
    discarded,          \* history: the units shutdown(immediate) dropped
    quota,              \* history: the QuotaExceeded signals
    unvisited,          \* history: per page, the items its loop left unvisited
    test_runs,          \* history: per page, the items logged as TEST RUN
    failed_fetches,     \* history: the pages whose listing request got a non-200
    notion_error,       \* the Notion request the last step logged as failed, if any
    call,               \* apply_to_vacancy alone: the response it is given
    outcome,            \* apply_to_vacancy alone: what it raised or returned
    script,             \* the script of the repository that runs
    caught,             \* history: the units whose `except Exception` clause ran
    hh_ok               \* history: the units whose HH call returned success

vars ==
    <<workers_num, test_run, search, notion_enabled, mainpc, queue,
      unfinished_tasks, is_shutdown, join_woken, pc, page, vacancies, idx, visited, applied,
      puts, gets, fetches, dones, pages, actions, records, discarded, quota,
      unvisited, test_runs, failed_fetches, notion_error, call, outcome,
      script, caught, hh_ok>>

\* No failed Notion request.
NoError == [self |-> 0, page |-> NoPage, idx |-> 0]

Busy == {"fetch", "apply", "notion"}

\* The units the workers other than w hold, dequeued and not marked done.
HeldByOthers(w) ==
    {page[v] : v \in {u \in Workers \ {w} : page[u] # NoPage}}

Sum(f) ==
    LET RECURSIVE S(_)
        S(D) == IF D = {} THEN 0
                ELSE LET x == CHOOSE y \in D : TRUE IN f[x] + S(D \ {x})
    IN S(DOMAIN f)

ActionsOf(a, p) == Sum(a[p])

TotalActions(a) == Sum([p \in Pages |-> ActionsOf(a, p)])

TotalRecords(r) == Sum([p \in Pages |-> Sum(r[p])])

----------------------------------------------------------------------------
\* The state one task works on while it runs: the queue, the task's locals
\* and the history.

Cfg(w) ==
    [self |-> w, queue |-> queue, unfinished_tasks |-> unfinished_tasks,
     is_shutdown |-> is_shutdown, join_woken |-> join_woken,
     pc |-> pc[w], page |-> page[w], vacancies |-> vacancies[w],
     idx |-> idx[w], visited |-> visited[w], applied |-> applied[w],
     puts |-> puts,
     gets |-> gets, fetches |-> fetches, dones |-> dones, pages |-> pages,
     actions |-> actions, records |-> records, discarded |-> discarded,
     quota |-> quota, unvisited |-> unvisited, test_runs |-> test_runs,
     failed_fetches |-> failed_fetches, notion_error |-> NoError,
     caught |-> caught, hh_ok |-> hh_ok,
     others |-> HeldByOthers(w)]

\* The state after the task w has run to c; c is evaluated once, as d.
Commit(w, c) ==
    \E d \in {c} :
        /\ queue' = d.queue
        /\ unfinished_tasks' = d.unfinished_tasks
        /\ is_shutdown' = d.is_shutdown
        /\ join_woken' = d.join_woken
        /\ pc' = [pc EXCEPT ![w] = d.pc]
        /\ page' = [page EXCEPT ![w] = d.page]
        /\ vacancies' = [vacancies EXCEPT ![w] = d.vacancies]
        /\ idx' = [idx EXCEPT ![w] = d.idx]
        /\ visited' = [visited EXCEPT ![w] = d.visited]
        /\ applied' = [applied EXCEPT ![w] = d.applied]
        /\ puts' = d.puts
        /\ gets' = d.gets
        /\ fetches' = d.fetches
        /\ dones' = d.dones
        /\ pages' = d.pages
        /\ actions' = d.actions
        /\ records' = d.records
        /\ discarded' = d.discarded
        /\ quota' = d.quota
        /\ unvisited' = d.unvisited
        /\ test_runs' = d.test_runs
        /\ failed_fetches' = d.failed_fetches
        /\ notion_error' = d.notion_error
        /\ caught' = d.caught
        /\ hh_ok' = d.hh_ok
        /\ UNCHANGED <<workers_num, test_run, search, notion_enabled, mainpc,
                       call, outcome, script>>

Raised(c) == c.pc \in Terminated

----------------------------------------------------------------------------
\* asyncio.Queue, as the program uses it.

\* Variant: a put that leaves the unfinished count as it is.
Queue_put_uncounted(c, item) ==
    IF c.is_shutdown
    THEN [c EXCEPT !.pc = "QueueShutDown"]
    ELSE [c EXCEPT !.queue = Append(@, item),
                   !.puts[item] = Append(@, c.self)]

\* queue.put(item) on an unbounded queue: never suspends.
Queue_put(c, item) ==
    IF c.is_shutdown
    THEN [c EXCEPT !.pc = "QueueShutDown"]
    ELSE [c EXCEPT !.queue = Append(@, item),
                   !.unfinished_tasks = @ + 1,
                   !.puts[item] = Append(@, c.self)]

\* Variant: a get that reads the oldest item and leaves it in the queue.
Queue_get_peek(c) ==
    IF c.queue # <<>>
    THEN [c EXCEPT !.page = Head(c.queue),
                   !.gets[Head(c.queue)] = Append(@, c.self),
                   !.pc = "got"]
    ELSE IF c.is_shutdown
    THEN [c EXCEPT !.pc = "QueueShutDown"]
    ELSE [c EXCEPT !.pc = "get"]

\* Variant: a get that keeps waiting on a queue that is empty and shut down.
Queue_get_waits(c) ==
    IF c.queue # <<>>
    THEN [c EXCEPT !.queue = Tail(@),
                   !.page = Head(c.queue),
                   !.gets[Head(c.queue)] = Append(@, c.self),
                   !.pc = "got"]
    ELSE [c EXCEPT !.pc = "get"]

\* queue.get(): the oldest item; QueueShutDown when the queue is empty and
\* shut down; suspended otherwise.
Queue_get(c) ==
    IF c.queue # <<>>
    THEN [c EXCEPT !.queue = Tail(@),
                   !.page = Head(c.queue),
                   !.gets[Head(c.queue)] = Append(@, c.self),
                   !.pc = "got"]
    ELSE IF c.is_shutdown
    THEN [c EXCEPT !.pc = "QueueShutDown"]
    ELSE [c EXCEPT !.pc = "get"]

\* Variant: a task_done that leaves the unfinished count as it is.
Queue_task_done_forgets(c) ==
    [c EXCEPT !.dones[c.page] = @ + 1]

\* queue.task_done(): when the count reaches zero the finished event is
\* set, which wakes the join() that waits on it.
Queue_task_done(c) ==
    IF c.unfinished_tasks <= 0
    THEN [c EXCEPT !.pc = "ValueError"]
    ELSE [c EXCEPT !.unfinished_tasks = @ - 1,
                   !.dones[c.page] = @ + 1,
                   !.join_woken = @ \/ c.unfinished_tasks = 1]

\* Variant: queue.shutdown() without immediate=True, which keeps the queued
\* items for the workers to drain.
Queue_shutdown_graceful(c) ==
    [c EXCEPT !.is_shutdown = TRUE]

\* Variant: a shutdown that drops the queued items and leaves them on the
\* unfinished count.
Queue_shutdown_keeps_count(c) ==
    [c EXCEPT !.is_shutdown = TRUE,
              !.queue = <<>>,
              !.discarded = @ \cup Range(c.queue)]

\* Variant: a shutdown that resets the unfinished count and sets the
\* finished event, whatever the workers still hold.
Queue_shutdown_resets(c) ==
    [c EXCEPT !.is_shutdown = TRUE,
              !.queue = <<>>,
              !.unfinished_tasks = 0,
              !.join_woken = TRUE,
              !.discarded = @ \cup Range(c.queue)]

\* Variant: a shutdown that raises on a queue that is already shut down.
Queue_shutdown_once(c) ==
    IF c.is_shutdown
    THEN [c EXCEPT !.pc = "QueueShutDown"]
    ELSE [c EXCEPT !.is_shutdown = TRUE,
                   !.queue = <<>>,
                   !.unfinished_tasks =
                       IF @ > Len(c.queue) THEN @ - Len(c.queue) ELSE 0,
                   !.join_woken = @ \/ c.unfinished_tasks <= Len(c.queue),
                   !.discarded = @ \cup Range(c.queue)]

\* queue.shutdown(immediate=True): drops every queued item, taking each off
\* the unfinished count, and sets the finished event if the count is zero.
Queue_shutdown(c) ==
    [c EXCEPT !.is_shutdown = TRUE,
              !.queue = <<>>,
              !.unfinished_tasks =
                  IF @ > Len(c.queue) THEN @ - Len(c.queue) ELSE 0,
              !.join_woken = @ \/ c.unfinished_tasks <= Len(c.queue),
              !.discarded = @ \cup Range(c.queue)]

----------------------------------------------------------------------------
\* The functions of send_applies.py.

\* The status check of get_vacancies_response: the JSON of a 200, else None.
get_vacancies_response(response) ==
    IF response.status # 200
    THEN None
    ELSE Some([pages |-> response.pages, items |-> response.items])

\* Variant: range(start_page, end_page - 1), which leaves the last page out.
RECURSIVE fill_queue_short(_, _, _)
fill_queue_short(c, start_page, end_page) ==
    IF start_page >= end_page - 1 \/ Raised(c)
    THEN c
    ELSE fill_queue_short(Queue_put(c, start_page), start_page + 1, end_page)

\* Variant: range(start_page - 1, end_page), which enqueues page 0 again.
RECURSIVE fill_queue_again(_, _, _)
fill_queue_again(c, start_page, end_page) ==
    IF start_page - 1 >= end_page \/ Raised(c)
    THEN c
    ELSE fill_queue_again(Queue_put(c, start_page - 1), start_page + 1,
                          end_page)

\* Variant: a fill that enqueues page 1 whatever the page count.
RECURSIVE fill_queue_min_two(_, _, _)
fill_queue_min_two(c, start_page, end_page) ==
    IF (start_page >= end_page /\ start_page >= 2) \/ Raised(c)
    THEN c
    ELSE fill_queue_min_two(Queue_put(c, start_page), start_page + 1,
                            end_page)

RECURSIVE fill_queue(_, _, _)
fill_queue(c, start_page, end_page) ==
    IF start_page >= end_page \/ Raised(c)
    THEN c
    ELSE fill_queue(Queue_put(c, start_page), start_page + 1, end_page)

\* Variant: every page enqueues its successor, in place of page 0
\* enqueueing them all.
process_vacancies_response_next(c, response_json) ==
    IF response_json # None
    THEN LET json == response_json[1]
             reported == IF c.page = 0
                         THEN [c EXCEPT !.pages = Append(@, json.pages)]
                         ELSE c
             filled ==
                 IF c.page + 1 < reported.pages[1]
                 THEN Queue_put(reported, c.page + 1)
                 ELSE reported
         IN IF Raised(filled)
            THEN filled
            ELSE [filled EXCEPT !.vacancies = json.items, !.idx = 0]
    ELSE [c EXCEPT !.vacancies = <<>>, !.idx = 0]

\* Variant: a failed response of page 0 is taken to report two pages.
process_vacancies_response_default(c, response_json) ==
    IF response_json # None
    THEN LET json == response_json[1]
             filled ==
                 IF c.page = 0
                 THEN fill_queue([c EXCEPT !.pages = Append(@, json.pages)],
                                 c.page + 1, json.pages)
                 ELSE c
         IN IF Raised(filled)
            THEN filled
            ELSE [filled EXCEPT !.vacancies = json.items, !.idx = 0]
    ELSE LET filled == IF c.page = 0 THEN fill_queue(c, 1, 2) ELSE c
         IN IF Raised(filled)
            THEN filled
            ELSE [filled EXCEPT !.vacancies = <<>>, !.idx = 0]

process_vacancies_response(c, response_json) ==
    IF response_json # None
    THEN LET json == response_json[1]
             filled ==
                 IF c.page = 0
                 THEN fill_queue([c EXCEPT !.pages = Append(@, json.pages)],
                                 c.page + 1, json.pages)
                 ELSE c
         IN IF Raised(filled)
            THEN filled
            ELSE [filled EXCEPT !.vacancies = json.items, !.idx = 0]
    ELSE [c EXCEPT !.vacancies = <<>>, !.idx = 0]

vacancy_blacklisted_by_words(vacancy) == vacancy.words

vacancy_blacklisted_by_ids(vacancy) == vacancy.ids

\* Variant: an apply_to_vacancy that also returns the Location header of a
\* 303, the address of the external apply.
apply_to_vacancy_external(response) ==
    IF response.status = 201 \/ response.status = 303
    THEN [raises |-> "", returns |-> Some(response.location)]
    ELSE IF (response.status = 403 \/ response.status = 400)
            /\ \E i \in DOMAIN response.errors :
                   response.errors[i] = "limit_exceeded"
    THEN [raises |-> "HH_Limit_Exceeded_Error", returns |-> None]
    ELSE [raises |-> "", returns |-> None]

\* Variant: an apply_to_vacancy that reads the errors of a 403 only.
apply_to_vacancy_403_only(response) ==
    IF response.status = 201
    THEN [raises |-> "", returns |-> Some(response.location)]
    ELSE IF response.status = 403
            /\ \E i \in DOMAIN response.errors :
                   response.errors[i] = "limit_exceeded"
    THEN [raises |-> "HH_Limit_Exceeded_Error", returns |-> None]
    ELSE [raises |-> "", returns |-> None]

\* apply_to_vacancy, from the response on: the exception it raises, or the
\* value it returns.
apply_to_vacancy(response) ==
    IF response.status = 201
    THEN [raises |-> "", returns |-> Some(response.location)]
    ELSE IF (response.status = 403 \/ response.status = 400)
            /\ \E i \in DOMAIN response.errors :
                   response.errors[i] = "limit_exceeded"
    THEN [raises |-> "HH_Limit_Exceeded_Error", returns |-> None]
    ELSE [raises |-> "", returns |-> None]

\* `if negotiation_url:`
Truthy(negotiation_url) ==
    negotiation_url # None /\ negotiation_url[1] # ""

RECURSIVE for_vacancies(_)

\* The top of the worker's loop: take the next unit and request its page.
\* The locals of the iteration before are dead here; the model clears them.
\* For a search that is no member of SearchType, get_vacancies_response
\* returns None without a request, and the loop body runs on.
RECURSIVE loop_top(_)
loop_top(c) ==
    LET got == Queue_get([c EXCEPT !.page = NoPage, !.vacancies = <<>>,
                                   !.idx = 0, !.visited = <<>>,
                                   !.applied = None])
    IN IF got.pc # "got"
       THEN got
       ELSE IF search \in SearchType
       THEN [got EXCEPT !.pc = "fetch", !.fetches[got.page] = @ + 1]
       ELSE for_vacancies(process_vacancies_response(got, None))

\* Variant: an end of the loop body without task_done.
end_of_page_no_done(c) ==
    loop_top([c EXCEPT !.unvisited[c.page] = Len(c.vacancies) - c.idx])

\* The end of the worker's loop body, with c.idx the item the for loop
\* would have visited next: mark the unit done and loop.
end_of_page(c) ==
    LET left == [c EXCEPT !.unvisited[c.page] = Len(c.vacancies) - c.idx]
        done == Queue_task_done(left)
    IN IF Raised(done) THEN done ELSE loop_top(done)

\* Variant: a for loop that leaves the page once the queue is shut down.
RECURSIVE for_vacancies_until_shutdown(_)
for_vacancies_until_shutdown(c) ==
    IF c.idx >= Len(c.vacancies) \/ c.is_shutdown
    THEN end_of_page(c)
    ELSE LET vacancy == c.vacancies[c.idx + 1]
             next == [c EXCEPT !.idx = @ + 1, !.applied = None]
         IN IF vacancy_blacklisted_by_words(vacancy)
            THEN for_vacancies_until_shutdown(
                     [next EXCEPT !.visited = Append(@, "words")])
            ELSE IF vacancy_blacklisted_by_ids(vacancy)
            THEN for_vacancies_until_shutdown(
                     [next EXCEPT !.visited = Append(@, "ids")])
            ELSE IF test_run
            THEN for_vacancies_until_shutdown(
                     [next EXCEPT !.visited = Append(@, "TEST RUN"),
                                  !.test_runs[c.page] = @ + 1])
            ELSE [c EXCEPT !.pc = "apply", !.applied = None,
                           !.visited = Append(@, "apply"),
                           !.actions[c.page][c.idx] = @ + 1]

\* Variant: a for loop without the `if test_run:` branch.
RECURSIVE for_vacancies_no_test_run(_)
for_vacancies_no_test_run(c) ==
    IF c.idx >= Len(c.vacancies)
    THEN end_of_page(c)
    ELSE LET vacancy == c.vacancies[c.idx + 1]
             next == [c EXCEPT !.idx = @ + 1, !.applied = None]
         IN IF vacancy_blacklisted_by_words(vacancy)
            THEN for_vacancies_no_test_run(
                     [next EXCEPT !.visited = Append(@, "words")])
            ELSE IF vacancy_blacklisted_by_ids(vacancy)
            THEN for_vacancies_no_test_run(
                     [next EXCEPT !.visited = Append(@, "ids")])
            ELSE [c EXCEPT !.pc = "apply", !.applied = None,
                           !.visited = Append(@, "apply"),
                           !.actions[c.page][c.idx] = @ + 1]

\* Variant: a for loop that asks the id blacklist before the word blacklist.
RECURSIVE for_vacancies_ids_first(_)
for_vacancies_ids_first(c) ==
    IF c.idx >= Len(c.vacancies)
    THEN end_of_page(c)
    ELSE LET vacancy == c.vacancies[c.idx + 1]
             next == [c EXCEPT !.idx = @ + 1, !.applied = None]
         IN IF vacancy_blacklisted_by_ids(vacancy)
            THEN for_vacancies_ids_first(
                     [next EXCEPT !.visited = Append(@, "ids")])
            ELSE IF vacancy_blacklisted_by_words(vacancy)
            THEN for_vacancies_ids_first(
                     [next EXCEPT !.visited = Append(@, "words")])
            ELSE IF test_run
            THEN for_vacancies_ids_first(
                     [next EXCEPT !.visited = Append(@, "TEST RUN"),
                                  !.test_runs[c.page] = @ + 1])
            ELSE [c EXCEPT !.pc = "apply", !.applied = None,
                           !.visited = Append(@, "apply"),
                           !.actions[c.page][c.idx] = @ + 1]

\* The for loop over the vacancies, from item c.idx to the next request.
for_vacancies(c) ==
    IF c.idx >= Len(c.vacancies)
    THEN end_of_page(c)
    ELSE LET vacancy == c.vacancies[c.idx + 1]
         IN IF vacancy_blacklisted_by_words(vacancy)
            THEN for_vacancies([c EXCEPT !.idx = @ + 1, !.applied = None,
                                         !.visited = Append(@, "words")])
            ELSE IF vacancy_blacklisted_by_ids(vacancy)
            THEN for_vacancies([c EXCEPT !.idx = @ + 1, !.applied = None,
                                         !.visited = Append(@, "ids")])
            ELSE IF test_run
            THEN for_vacancies([c EXCEPT !.idx = @ + 1, !.applied = None,
                                         !.visited = Append(@, "TEST RUN"),
                                         !.test_runs[c.page] = @ + 1])
            ELSE [c EXCEPT !.pc = "apply", !.applied = None,
                           !.visited = Append(@, "apply"),
                           !.actions[c.page][c.idx] = @ + 1]

\* The history of a QuotaExceeded signal: the item that raised it and, at
\* the first signal, what the run had done by then.
Signal(c) ==
    [c EXCEPT !.quota =
        [items |-> @.items \cup {[page |-> c.page, idx |-> c.idx,
                                   n |-> Len(c.vacancies)]},
         queued |-> @.queued \cup Range(c.queue),
         held |-> IF @.items = {} THEN c.others ELSE @.held,
         actions |-> IF @.items = {} THEN c.actions ELSE @.actions,
         fetches |-> IF @.items = {} THEN c.fetches ELSE @.fetches]]

\* Variant: `continue` in place of `break` after the shutdown.
on_limit_exceeded_continue(c) ==
    for_vacancies([Queue_shutdown(c) EXCEPT !.idx = @ + 1])

\* `except HH_Limit_Exceeded_Error: queue.shutdown(immediate=True); break`
on_limit_exceeded(c) ==
    end_of_page([Queue_shutdown(c) EXCEPT !.idx = @ + 1])

\* Variant: an add_apply_to_notion that returns without a request, whatever
\* settings.notion_enabled is.
add_apply_to_notion_disabled(c) ==
    for_vacancies([c EXCEPT !.idx = @ + 1])

\* add_apply_to_notion, up to its request.
add_apply_to_notion(c) ==
    IF ~notion_enabled
    THEN for_vacancies([c EXCEPT !.idx = @ + 1])
    ELSE [c EXCEPT !.pc = "notion", !.records[c.page][c.idx] = @ + 1]

\* The loop body from the response of the apply request on.
after_apply(c, response) ==
    LET result == apply_to_vacancy(response)
    IN IF result.raises = "HH_Limit_Exceeded_Error"
       THEN on_limit_exceeded(Signal(c))
       ELSE IF Truthy(result.returns)
       THEN add_apply_to_notion([c EXCEPT !.applied = Some(response)])
       ELSE for_vacancies([c EXCEPT !.idx = @ + 1])

\* Variant: an add_apply_to_notion that raises on a status other than 200.
after_notion_raises(c, status) ==
    IF status # 200
    THEN [c EXCEPT !.pc = "NotionError",
                   !.notion_error =
                       [self |-> c.self, page |-> c.page, idx |-> c.idx]]
    ELSE for_vacancies([c EXCEPT !.idx = @ + 1, !.applied = None])

\* Variant: an add_apply_to_notion that posts again on a status other than
\* 200.
after_notion_retries(c, status) ==
    IF status # 200 /\ c.records[c.page][c.idx] < 2
    THEN [c EXCEPT !.records[c.page][c.idx] = @ + 1]
    ELSE for_vacancies([c EXCEPT !.idx = @ + 1, !.applied = None])

\* add_apply_to_notion from its response on, and the loop body after it: a
\* status other than 200 is logged as an error, and that is all.
after_notion(c, status) ==
    LET logged ==
            IF status # 200
            THEN [c EXCEPT !.notion_error =
                     [self |-> c.self, page |-> c.page, idx |-> c.idx]]
            ELSE c
    IN for_vacancies([logged EXCEPT !.idx = @ + 1, !.applied = None])

\* Variant: a loop body that, on a listing status other than 200, goes back
\* to queue.get() without task_done.
after_fetch_no_done(c, response) ==
    LET response_json == get_vacancies_response(response)
        processed == process_vacancies_response(c, response_json)
    IN IF response_json = None
       THEN loop_top([c EXCEPT !.failed_fetches = @ \cup {c.page}])
       ELSE IF Raised(processed) THEN processed ELSE for_vacancies(processed)

\* The loop body from the response of the listing request on; a status
\* other than 200 is logged as an error by get_vacancies_response.
after_fetch(c, response) ==
    LET response_json == get_vacancies_response(response)
        logged ==
            IF response_json = None
            THEN [c EXCEPT !.failed_fetches = @ \cup {c.page}]
            ELSE c
        processed == process_vacancies_response(logged, response_json)
    IN IF Raised(processed) THEN processed ELSE for_vacancies(processed)

----------------------------------------------------------------------------
\* The actions.

Zero == [p \in Pages |-> 0]

ZeroItems == [p \in Pages |-> [i \in Idxs |-> 0]]

\* The program's state when main is called.
Start ==
    /\ workers_num \in Workers
    /\ test_run \in BOOLEAN
    /\ search \in Searches
    /\ notion_enabled \in BOOLEAN
    /\ mainpc = "start"
    /\ queue = <<>>
    /\ unfinished_tasks = 0
    /\ is_shutdown = FALSE
    /\ join_woken = FALSE
    /\ pc = [w \in Workers |-> "idle"]
    /\ page = [w \in Workers |-> NoPage]
    /\ vacancies = [w \in Workers |-> <<>>]
    /\ idx = [w \in Workers |-> 0]
    /\ visited = [w \in Workers |-> <<>>]
    /\ applied = [w \in Workers |-> None]
    /\ puts = [p \in Pages |-> <<>>]
    /\ gets = [p \in Pages |-> <<>>]
    /\ fetches = Zero
    /\ dones = Zero
    /\ pages = <<>>
    /\ actions = ZeroItems
    /\ records = ZeroItems
    /\ discarded = {}
    /\ quota = [items |-> {}, queued |-> {}, held |-> {},
                actions |-> ZeroItems, fetches |-> Zero]
    /\ unvisited = Zero
    /\ test_runs = Zero
    /\ failed_fetches = {}
    /\ notion_error = NoError
    /\ caught = {}
    /\ hh_ok = {}

Init ==
    /\ Start
    /\ script = "send_applies"
    /\ call = None
    /\ outcome = None

\* main, to its queue.join(): seeds the queue and creates the workers; the
\* count is 1, so join() waits for the finished event.
main_start ==
    /\ mainpc = "start"
    /\ mainpc' = "join"
    /\ queue' = Append(queue, 0)
    /\ unfinished_tasks' = unfinished_tasks + 1
    /\ puts' = [puts EXCEPT ![0] = Append(@, MainTask)]
    /\ pc' = [w \in Workers |-> IF w <= workers_num THEN "get" ELSE "idle"]
    /\ notion_error' = NoError
    /\ UNCHANGED <<workers_num, test_run, search, notion_enabled, is_shutdown,
                   join_woken, page, vacancies, idx, visited, applied, gets,
                   fetches, dones, pages, actions, records, discarded, quota,
                   unvisited, test_runs, failed_fetches, call, outcome,
                   script, caught, hh_ok>>

\* Variant: a main that cancels the workers without awaiting queue.join().
main_cancel_no_join ==
    /\ mainpc = "join"
    /\ mainpc' = "gather"
    /\ pc' = [w \in Workers |->
                IF pc[w] \in Terminated \cup {"idle"} THEN pc[w]
                ELSE "CancelledError"]
    /\ notion_error' = NoError
    /\ UNCHANGED <<workers_num, test_run, search, notion_enabled, queue,
                   unfinished_tasks, is_shutdown, join_woken, page,
                   vacancies, idx, visited, applied, puts, gets, fetches,
                   dones, pages, actions, records, discarded, quota,
                   unvisited, test_runs, failed_fetches, call, outcome,
                   script, caught, hh_ok>>

\* main, from the return of queue.join() to asyncio.gather(): cancels every
\* worker; a worker that has not ended gets CancelledError where it waits.
main_cancel ==
    /\ mainpc = "join"
    /\ join_woken
    /\ mainpc' = "gather"
    /\ pc' = [w \in Workers |->
                IF pc[w] \in Terminated \cup {"idle"} THEN pc[w]
                ELSE "CancelledError"]
    /\ notion_error' = NoError
    /\ UNCHANGED <<workers_num, test_run, search, notion_enabled, queue,
                   unfinished_tasks, is_shutdown, join_woken, page,
                   vacancies, idx, visited, applied, puts, gets, fetches,
                   dones, pages, actions, records, discarded, quota,
                   unvisited, test_runs, failed_fetches, call, outcome,
                   script, caught, hh_ok>>

\* main, from the return of gather(return_exceptions=True) to its end.
main_gather ==
    /\ mainpc = "gather"
    /\ \A w \in Workers : pc[w] \in Terminated \cup {"idle"}
    /\ mainpc' = "done"
    /\ notion_error' = NoError
    /\ UNCHANGED <<workers_num, test_run, search, notion_enabled, queue,
                   unfinished_tasks, is_shutdown, join_woken, pc, page,
                   vacancies, idx, visited, applied, puts, gets, fetches,
                   dones, pages, actions, records, discarded, quota,
                   unvisited, test_runs, failed_fetches, call, outcome,
                   script, caught, hh_ok>>

\* A worker in queue.get() runs: it was just created, or a put or the
\* shutdown woke it.
worker_get(w) ==
    /\ pc[w] = "get"
    /\ queue # <<>> \/ is_shutdown
    /\ Commit(w, loop_top(Cfg(w)))

\* The listing request of a worker returns.
fetch_returns(w) ==
    /\ pc[w] = "fetch"
    /\ \E response \in ListingResponses :
           Commit(w, after_fetch(Cfg(w), response))

\* The apply request of a worker returns.
apply_returns(w) ==
    /\ pc[w] = "apply"
    /\ \E response \in ApplyResponses :
           Commit(w, after_apply(Cfg(w), response))

\* The Notion request of a worker returns.
notion_returns(w) ==
    /\ pc[w] = "notion"
    /\ \E status \in NotionResponses :
           Commit(w, after_notion(Cfg(w), status))

\* A request of a worker fails in the transport: session.get or
\* session.post raises, and nothing in the worker catches it.
transport_raises(w) ==
    /\ pc[w] \in Busy
    /\ Commit(w, [Cfg(w) EXCEPT !.pc =
                     CASE pc[w] = "fetch" -> "FetchError"
                       [] pc[w] = "apply" -> "ApplyError"
                       [] OTHER -> "NotionError"])

Next ==
    \/ main_start
    \/ main_cancel
    \/ main_gather
    \/ \E w \in Workers : worker_get(w)
    \/ \E w \in Workers : fetch_returns(w)
    \/ \E w \in Workers : apply_returns(w)
    \/ \E w \in Workers : notion_returns(w)
    \/ \E w \in Workers : transport_raises(w)

Spec == Init /\ [][Next]_vars

\* apply_to_vacancy alone, as a function of the response of its request.
ApplyInit ==
    /\ Start
    /\ script = "send_applies"
    /\ call \in {Some(response) : response \in AnyApplyResponses}
    /\ outcome = None

apply_to_vacancy_returns ==
    /\ outcome = None
    /\ outcome' = Some(apply_to_vacancy(call[1]))
    /\ UNCHANGED <<workers_num, test_run, search, notion_enabled, mainpc, queue,
                   unfinished_tasks, is_shutdown, join_woken, pc, page,
                   vacancies, idx, visited, applied, puts, gets, fetches,
                   dones, pages, actions, records, discarded, quota,
                   unvisited, test_runs, failed_fetches, notion_error, call,
                   script, caught, hh_ok>>

ApplyNext == apply_to_vacancy_returns

ApplySpec == ApplyInit /\ [][ApplyNext]_vars

----------------------------------------------------------------------------
\* The pre-seeded variant, send_applies.py at the top of the repository:
\* main awaits fill_queue, which enqueues every page, before it creates the
\* workers, and a worker that catches HH_Limit_Exceeded_Error marks its unit
\* done and returns.  The variant has no test_run and no search.

\* The ways a worker task of the variant ends: by its `return`, or with an
\* exception.
PreseededTerminated == Terminated \cup {"returned"}

\* Responses of the listing transport to the variant, which has the one
\* blacklist: a vacancy is told apart by `words` alone.
PreseededListingResponses ==
    {response \in ListingResponses :
        \A i \in DOMAIN response.items : ~response.items[i].ids}

\* fetch_vacancies_from_page, from the response on: [] for a status other
\* than 200, else the items.
fetch_vacancies_from_page(response) ==
    IF response.status # 200 THEN <<>> ELSE response.items

\* vacancy_blacklisted: a word of the vacancy's text is in the blacklist.
vacancy_blacklisted(vacancy) == vacancy.words

\* apply_to_vacancy of the variant, from the response on.
preseeded_apply_to_vacancy(response) ==
    IF response.status = 201
    THEN [raises |-> "", returns |-> Some(response.location)]
    ELSE IF (response.status = 403 \/ response.status = 400)
            /\ \E i \in DOMAIN response.errors :
                   response.errors[i] = "limit_exceeded"
    THEN [raises |-> "HH_Limit_Exceeded_Error", returns |-> None]
    ELSE [raises |-> "", returns |-> None]

\* The top of the worker's loop: take the next unit and request its page.
preseeded_loop_top(c) ==
    LET got == Queue_get([c EXCEPT !.page = NoPage, !.vacancies = <<>>,
                                   !.idx = 0, !.visited = <<>>,
                                   !.applied = None])
    IN IF got.pc # "got"
       THEN got
       ELSE [got EXCEPT !.pc = "fetch", !.fetches[got.page] = @ + 1]

\* The end of the worker's loop body: mark the unit done and loop.
preseeded_end_of_page(c) ==
    LET left == [c EXCEPT !.unvisited[c.page] = Len(c.vacancies) - c.idx]
        done == Queue_task_done(left)
    IN IF Raised(done) THEN done ELSE preseeded_loop_top(done)

\* The for loop over the vacancies, from item c.idx to the next request.
RECURSIVE preseeded_for_vacancies(_)
preseeded_for_vacancies(c) ==
    IF c.idx >= Len(c.vacancies)
    THEN preseeded_end_of_page(c)
    ELSE IF vacancy_blacklisted(c.vacancies[c.idx + 1])
    THEN preseeded_for_vacancies([c EXCEPT !.idx = @ + 1, !.applied = None,
                                           !.visited = Append(@, "words")])
    ELSE [c EXCEPT !.pc = "apply", !.applied = None,
                   !.visited = Append(@, "apply"),
                   !.actions[c.page][c.idx] = @ + 1]

\* `except HH_Limit_Exceeded_Error: queue.task_done(); return`: the queue
\* stays as it is, with the units it holds.
preseeded_on_limit_exceeded(c) ==
    LET left == [c EXCEPT !.idx = @ + 1,
                          !.unvisited[c.page] = Len(c.vacancies) - (c.idx + 1)]
        done == Queue_task_done(left)
    IN IF Raised(done)
       THEN done
       ELSE [done EXCEPT !.pc = "returned", !.page = NoPage,
                         !.vacancies = <<>>, !.idx = 0, !.visited = <<>>]

\* add_apply_to_notion of the variant, up to its request.
preseeded_add_apply_to_notion(c) ==
    IF ~notion_enabled
    THEN preseeded_for_vacancies([c EXCEPT !.idx = @ + 1])
    ELSE [c EXCEPT !.pc = "notion", !.records[c.page][c.idx] = @ + 1]

\* The loop body from the response of the apply request on.
preseeded_after_apply(c, response) ==
    LET result == preseeded_apply_to_vacancy(response)
    IN IF result.raises = "HH_Limit_Exceeded_Error"
       THEN preseeded_on_limit_exceeded(Signal(c))
       ELSE IF Truthy(result.returns)
       THEN preseeded_add_apply_to_notion([c EXCEPT !.applied = Some(response)])
       ELSE preseeded_for_vacancies([c EXCEPT !.idx = @ + 1])

\* add_apply_to_notion from its response on, and the loop body after it.
preseeded_after_notion(c, status) ==
    LET logged ==
            IF status # 200
            THEN [c EXCEPT !.notion_error =
                     [self |-> c.self, page |-> c.page, idx |-> c.idx]]
            ELSE c
    IN preseeded_for_vacancies([logged EXCEPT !.idx = @ + 1,
                                              !.applied = None])

\* The loop body from the response of the listing request on.
preseeded_after_fetch(c, response) ==
    LET logged ==
            IF response.status # 200
            THEN [c EXCEPT !.failed_fetches = @ \cup {c.page}]
            ELSE c
    IN preseeded_for_vacancies(
           [logged EXCEPT !.vacancies = fetch_vacancies_from_page(response),
                          !.idx = 0])

\* The variant has neither test_run nor search: both stay at one value.
PreseededInit ==
    /\ Init
    /\ ~test_run
    /\ search = "similar"

\* main, to the request of fill_queue.
preseeded_main_start ==
    /\ mainpc = "start"
    /\ mainpc' = "fill"
    /\ notion_error' = NoError
    /\ UNCHANGED <<workers_num, test_run, search, notion_enabled, queue,
                   unfinished_tasks, is_shutdown, join_woken, pc, page,
                   vacancies, idx, visited, applied, puts, gets, fetches,
                   dones, pages, actions, records, discarded, quota,
                   unvisited, test_runs, failed_fetches, call, outcome,
                   script, caught, hh_ok>>

\* The pages fill_queue enqueues for a response: range(pages) of a 200,
\* none otherwise.
preseeded_fill_queue(response) ==
    IF response.status # 200
    THEN <<>>
    ELSE [i \in 1..response.pages |-> i - 1]

\* main, from the response of fill_queue's request to queue.join(): the
\* queue is filled and the workers are created; join() returns at once
\* when nothing was enqueued.
preseeded_fill_returns ==
    /\ mainpc = "fill"
    /\ \E response \in PreseededListingResponses :
           LET filled == preseeded_fill_queue(response)
           IN /\ queue' = queue \o filled
              /\ unfinished_tasks' = unfinished_tasks + Len(filled)
              /\ join_woken' = (unfinished_tasks + Len(filled) = 0)
              /\ puts' = [p \in Pages |->
                            IF p \in Range(filled)
                            THEN Append(puts[p], MainTask) ELSE puts[p]]
              /\ pages' = IF response.status = 200
                          THEN Append(pages, response.pages) ELSE pages
    /\ mainpc' = "join"
    /\ pc' = [w \in Workers |-> IF w <= workers_num THEN "get" ELSE "idle"]
    /\ notion_error' = NoError
    /\ UNCHANGED <<workers_num, test_run, search, notion_enabled, is_shutdown,
                   page, vacancies, idx, visited, applied, gets, fetches,
                   dones, actions, records, discarded, quota, unvisited,
                   test_runs, failed_fetches, call, outcome,
                   script, caught, hh_ok>>

\* The request of fill_queue fails in the transport: main ends with the
\* exception, before any worker exists.
preseeded_fill_raises ==
    /\ mainpc = "fill"
    /\ mainpc' = "FillError"
    /\ notion_error' = NoError
    /\ UNCHANGED <<workers_num, test_run, search, notion_enabled, queue,
                   unfinished_tasks, is_shutdown, join_woken, pc, page,
                   vacancies, idx, visited, applied, puts, gets, fetches,
                   dones, pages, actions, records, discarded, quota,
                   unvisited, test_runs, failed_fetches, call, outcome,
                   script, caught, hh_ok>>

\* main, from the return of queue.join() to asyncio.gather(): cancels every
\* worker; cancel() does nothing to a task that has ended.
preseeded_main_cancel ==
    /\ mainpc = "join"
    /\ join_woken
    /\ mainpc' = "gather"
    /\ pc' = [w \in Workers |->
                IF pc[w] \in PreseededTerminated \cup {"idle"} THEN pc[w]
                ELSE "CancelledError"]
    /\ notion_error' = NoError
    /\ UNCHANGED <<workers_num, test_run, search, notion_enabled, queue,
                   unfinished_tasks, is_shutdown, join_woken, page,
                   vacancies, idx, visited, applied, puts, gets, fetches,
                   dones, pages, actions, records, discarded, quota,
                   unvisited, test_runs, failed_fetches, call, outcome,
                   script, caught, hh_ok>>

\* main, from the return of gather(return_exceptions=True) to its end.
preseeded_main_gather ==
    /\ mainpc = "gather"
    /\ \A w \in Workers : pc[w] \in PreseededTerminated \cup {"idle"}
    /\ mainpc' = "done"
    /\ notion_error' = NoError
    /\ UNCHANGED <<workers_num, test_run, search, notion_enabled, queue,
                   unfinished_tasks, is_shutdown, join_woken, pc, page,
                   vacancies, idx, visited, applied, puts, gets, fetches,
                   dones, pages, actions, records, discarded, quota,
                   unvisited, test_runs, failed_fetches, call, outcome,
                   script, caught, hh_ok>>

\* A worker in queue.get() runs: it was just created, or a unit is queued.
preseeded_worker_get(w) ==
    /\ pc[w] = "get"
    /\ queue # <<>> \/ is_shutdown
    /\ Commit(w, preseeded_loop_top(Cfg(w)))

\* The listing request of a worker returns.
preseeded_fetch_returns(w) ==
    /\ pc[w] = "fetch"
    /\ \E response \in PreseededListingResponses :
           Commit(w, preseeded_after_fetch(Cfg(w), response))

\* The apply request of a worker returns.
preseeded_apply_returns(w) ==
    /\ pc[w] = "apply"
    /\ \E response \in ApplyResponses :
           Commit(w, preseeded_after_apply(Cfg(w), response))

\* The Notion request of a worker returns.
preseeded_notion_returns(w) ==
    /\ pc[w] = "notion"
    /\ \E status \in NotionResponses :
           Commit(w, preseeded_after_notion(Cfg(w), status))

\* A request of a worker fails in the transport: nothing catches it.
preseeded_transport_raises(w) ==
    /\ pc[w] \in Busy
    /\ Commit(w, [Cfg(w) EXCEPT !.pc =
                     CASE pc[w] = "fetch" -> "FetchError"
                       [] pc[w] = "apply" -> "ApplyError"
                       [] OTHER -> "NotionError"])

PreseededNext ==
    \/ preseeded_main_start
    \/ preseeded_fill_returns
    \/ preseeded_fill_raises
    \/ preseeded_main_cancel
    \/ preseeded_main_gather
    \/ \E w \in Workers : preseeded_worker_get(w)
    \/ \E w \in Workers : preseeded_fetch_returns(w)
    \/ \E w \in Workers : preseeded_apply_returns(w)
    \/ \E w \in Workers : preseeded_notion_returns(w)
    \/ \E w \in Workers : preseeded_transport_raises(w)

PreseededSpec == PreseededInit /\ [][PreseededNext]_vars

----------------------------------------------------------------------------
\* The program under the transport of one scenario: page 0 reports three
\* pages and holds two items, one blacklisted by a word and one eligible,
\* and the apply request of the eligible one is answered 201 with its
\* Location; Notion is enabled and the run is no test run.  The requests
\* of pages 1 and 2 are answered as in any run.

\* The listing responses of page 0 in the scenario.
ScenarioPageZero ==
    {response \in ListingResponses :
        /\ response.status = 200
        /\ response.pages = 3
        /\ Len(response.items) = 2
        /\ \E i, j \in 1..2 :
               /\ i # j
               /\ response.items[i].words
               /\ ~response.items[j].words /\ ~response.items[j].ids}

\* The apply response of page 0's eligible item in the scenario.
ScenarioApplied ==
    {[status |-> 201, errors |-> <<>>, location |-> "url"]}

ScenarioInit ==
    /\ Init
    /\ ~test_run
    /\ notion_enabled
    /\ search \in SearchType

\* The listing request of a worker returns.
scenario_fetch_returns(w) ==
    /\ pc[w] = "fetch"
    /\ \E response \in IF page[w] = 0 THEN ScenarioPageZero
                       ELSE ListingResponses :
           Commit(w, after_fetch(Cfg(w), response))

\* The apply request of a worker returns.
scenario_apply_returns(w) ==
    /\ pc[w] = "apply"
    /\ \E response \in IF page[w] = 0 THEN ScenarioApplied
                       ELSE ApplyResponses :
           Commit(w, after_apply(Cfg(w), response))

\* A request of a worker fails in the transport; the listing and the apply
\* request of page 0 are answered, by the scenario.
scenario_transport_raises(w) ==
    /\ ~(page[w] = 0 /\ pc[w] \in {"fetch", "apply"})
    /\ transport_raises(w)

ScenarioNext ==
    \/ main_start
    \/ main_cancel
    \/ main_gather
    \/ \E w \in Workers : worker_get(w)
    \/ \E w \in Workers : scenario_fetch_returns(w)
    \/ \E w \in Workers : scenario_apply_returns(w)
    \/ \E w \in Workers : notion_returns(w)
    \/ \E w \in Workers : scenario_transport_raises(w)

ScenarioSpec == ScenarioInit /\ [][ScenarioNext]_vars

----------------------------------------------------------------------------
\* The scripts whose worker runs its loop body in
\* `try: ... except Exception: logger.error(...) finally: queue.task_done()`:
\* hh.py, process_rejection.py, remove_applies.py and add_manual_applies.py.
\* Each awaits fill_queue before it creates the workers.

Scripts == {"hh", "process_rejection", "remove_applies", "add_manual_applies"}

\* The scripts whose units are listing pages, each with items.
PageScripts == {"hh", "add_manual_applies"}

\* The scripts whose units are Notion pages, each with an HH url; their
\* main returns at once when Notion is not enabled.
NotionScripts == {"process_rejection", "remove_applies"}

\* A negotiation of add_manual_applies.py, by what its created_at is to
\* applies_after_date; strptime raises ValueError on a malformed one.
Negotiation == [created_at : {"before", "after", "malformed"}]

\* Responses to fill_queue's request: a status other than 200, or the
\* number of units the 200 lists ("pages", or the length of "results").
FillResponses ==
    {[status |-> 500, units |-> 0]} \cup [status : {200}, units : 0..MaxPages]

\* Responses to the listing request of a page; a vacancy of hh.py is an
\* item as any other.
PageResponses ==
    {[status |-> 500, items |-> <<>>]}
        \cup [status : {200},
              items : IF script = "hh"
                      THEN UNION {[1..n -> {[words |-> FALSE, ids |-> FALSE]}] :
                                     n \in 0..MaxItems}
                      ELSE UNION {[1..n -> Negotiation] : n \in 0..MaxItems}]

\* The statuses of the apply request of hh.py.
HhApplyStatuses == {201, 403}

\* Responses to the HH request of a unit: the delete of remove_applies.py
\* has a status; the get of process_rejection.py a status and, with 200, a
\* state, or a body without one.
HhResponses ==
    IF script = "remove_applies"
    THEN [status : {200, 204, 404}, state : {""}]
    ELSE {[status |-> 404, state |-> ""]}
             \cup [status : {200}, state : {"discard", "response", "missing"}]

\* application_removed, from the response on.
application_removed(response) ==
    IF response.status # 204 THEN FALSE ELSE TRUE

\* Variant: an application_rejected that takes any 200 for a rejection.
application_rejected_any_200(response) ==
    IF response.status # 200
    THEN [raises |-> "", returns |-> FALSE]
    ELSE [raises |-> "", returns |-> TRUE]

\* application_rejected, from the response on:
\* response_json["state"]["id"] raises KeyError on a body without it.
application_rejected(response) ==
    IF response.status # 200
    THEN [raises |-> "", returns |-> FALSE]
    ELSE IF response.state = "missing"
    THEN [raises |-> "KeyError", returns |-> FALSE]
    ELSE [raises |-> "", returns |-> response.state = "discard"]

\* The top of the worker's loop: take the next unit and issue its first
\* request, the listing of the page or the HH call.
guarded_loop_top(c) ==
    LET got == Queue_get([c EXCEPT !.page = NoPage, !.vacancies = <<>>,
                                   !.idx = 0, !.visited = <<>>,
                                   !.applied = None])
    IN IF got.pc # "got"
       THEN got
       ELSE [got EXCEPT !.pc = IF script \in PageScripts THEN "fetch" ELSE "hh",
                        !.fetches[got.page] = @ + 1]

\* `finally: queue.task_done()`, and the loop.
guarded_finally(c) ==
    LET done == Queue_task_done(c)
    IN IF Raised(done) THEN done ELSE guarded_loop_top(done)

\* Variant: an except clause that raises the exception again: the finally
\* clause runs and the worker ends.
guarded_except_reraises(c) ==
    LET done == Queue_task_done([c EXCEPT !.caught = @ \cup {c.page}])
    IN IF Raised(done) THEN done ELSE [done EXCEPT !.pc = "Exception"]

\* `except Exception as e: logger.error(...)`, then the finally clause.
guarded_except(c) ==
    guarded_finally([c EXCEPT !.caught = @ \cup {c.page}])

\* The for loop of hh.py, from item c.idx to its apply request.
hh_for_vacancies(c) ==
    IF c.idx >= Len(c.vacancies)
    THEN guarded_finally(c)
    ELSE [c EXCEPT !.pc = "apply", !.actions[c.page][c.idx] = @ + 1]

\* The for loop of add_manual_applies.py, from item c.idx to the next
\* request.
RECURSIVE manual_for_negotiations(_)
manual_for_negotiations(c) ==
    IF c.idx >= Len(c.vacancies)
    THEN guarded_finally(c)
    ELSE LET negotiation == c.vacancies[c.idx + 1]
         IN IF negotiation.created_at = "malformed"
            THEN guarded_except(c)
            ELSE IF negotiation.created_at = "before"
            THEN manual_for_negotiations([c EXCEPT !.idx = @ + 1])
            ELSE IF test_run \/ ~notion_enabled
            THEN manual_for_negotiations([c EXCEPT !.idx = @ + 1])
            ELSE [c EXCEPT !.pc = "notion", !.records[c.page][c.idx] = @ + 1]

\* The loop body of a page script from the response of the listing
\* request on: [] for a status other than 200, else the items.
guarded_after_fetch(c, response) ==
    LET listed == [c EXCEPT !.vacancies = IF response.status # 200 THEN <<>>
                                          ELSE response.items,
                            !.idx = 0]
    IN IF script = "hh"
       THEN hh_for_vacancies(listed)
       ELSE manual_for_negotiations(listed)

\* The loop body of hh.py from the status of the apply request on.
hh_after_apply(c, status) ==
    IF status = 201
    THEN IF ~notion_enabled
         THEN hh_for_vacancies([c EXCEPT !.idx = @ + 1])
         ELSE [c EXCEPT !.pc = "notion", !.records[c.page][c.idx] = @ + 1]
    ELSE hh_for_vacancies([c EXCEPT !.idx = @ + 1])

\* The HH call of a unit returned what the script takes for success: 204
\* for the delete, 200 with the state 'discard' for the rejection check.
SuccessShape(response) ==
    IF script = "remove_applies"
    THEN response.status = 204
    ELSE response.status = 200 /\ response.state = "discard"

\* The loop body of a Notion script from the response of the HH call on.
guarded_after_hh(c, response) ==
    LET seen == IF SuccessShape(response)
                THEN [c EXCEPT !.hh_ok = @ \cup {c.page}]
                ELSE c
        result == IF script = "remove_applies"
                  THEN [raises |-> "", returns |-> application_removed(response)]
                  ELSE application_rejected(response)
    IN IF result.raises # ""
       THEN guarded_except(seen)
       ELSE IF result.returns
       THEN [seen EXCEPT !.pc = "notion", !.records[c.page][0] = @ + 1]
       ELSE guarded_finally(seen)

\* The loop body from the response of the Notion request on: a status
\* other than 200 is logged, and that is all.
guarded_after_notion(c, status) ==
    LET logged ==
            IF status # 200
            THEN [c EXCEPT !.notion_error =
                     [self |-> c.self, page |-> c.page, idx |-> c.idx]]
            ELSE c
    IN IF script = "hh"
       THEN hh_for_vacancies([logged EXCEPT !.idx = @ + 1])
       ELSE IF script = "add_manual_applies"
       THEN manual_for_negotiations([logged EXCEPT !.idx = @ + 1])
       ELSE guarded_finally(logged)

\* test_run is an argument of add_manual_applies.py alone; no script has a
\* search.
GuardedInit ==
    /\ Start
    /\ script \in Scripts
    /\ script # "add_manual_applies" => ~test_run
    /\ search = "similar"
    /\ call = None
    /\ outcome = None

\* main, to the request of fill_queue.
guarded_main_start ==
    /\ mainpc = "start"
    /\ script \in NotionScripts => notion_enabled
    /\ mainpc' = "fill"
    /\ notion_error' = NoError
    /\ UNCHANGED <<workers_num, test_run, search, notion_enabled, queue,
                   unfinished_tasks, is_shutdown, join_woken, pc, page,
                   vacancies, idx, visited, applied, puts, gets, fetches,
                   dones, pages, actions, records, discarded, quota,
                   unvisited, test_runs, failed_fetches, call, outcome,
                   script, caught, hh_ok>>

\* main of a Notion script without Notion: logs an error and returns.
guarded_main_returns ==
    /\ mainpc = "start"
    /\ script \in NotionScripts /\ ~notion_enabled
    /\ mainpc' = "done"
    /\ notion_error' = NoError
    /\ UNCHANGED <<workers_num, test_run, search, notion_enabled, queue,
                   unfinished_tasks, is_shutdown, join_woken, pc, page,
                   vacancies, idx, visited, applied, puts, gets, fetches,
                   dones, pages, actions, records, discarded, quota,
                   unvisited, test_runs, failed_fetches, call, outcome,
                   script, caught, hh_ok>>

\* The units fill_queue enqueues for a response.
guarded_fill_queue(response) ==
    IF response.status # 200
    THEN <<>>
    ELSE [i \in 1..response.units |-> i - 1]

\* main, from the response of fill_queue's request to queue.join(): the
\* queue is filled and the workers are created; join() returns at once
\* when nothing was enqueued.
guarded_fill_returns ==
    /\ mainpc = "fill"
    /\ \E response \in FillResponses :
           LET filled == guarded_fill_queue(response)
           IN /\ queue' = queue \o filled
              /\ unfinished_tasks' = unfinished_tasks + Len(filled)
              /\ join_woken' = (unfinished_tasks + Len(filled) = 0)
              /\ puts' = [p \in Pages |->
                            IF p \in Range(filled)
                            THEN Append(puts[p], MainTask) ELSE puts[p]]
              /\ pages' = IF response.status = 200
                          THEN Append(pages, response.units) ELSE pages
    /\ mainpc' = "join"
    /\ pc' = [w \in Workers |-> IF w <= workers_num THEN "get" ELSE "idle"]
    /\ notion_error' = NoError
    /\ UNCHANGED <<workers_num, test_run, search, notion_enabled, is_shutdown,
                   page, vacancies, idx, visited, applied, gets, fetches,
                   dones, actions, records, discarded, quota, unvisited,
                   test_runs, failed_fetches, call, outcome,
                   script, caught, hh_ok>>

\* The request of fill_queue fails in the transport: main ends with the
\* exception, before any worker exists.
guarded_fill_raises ==
    /\ mainpc = "fill"
    /\ mainpc' = "FillError"
    /\ notion_error' = NoError
    /\ UNCHANGED <<workers_num, test_run, search, notion_enabled, queue,
                   unfinished_tasks, is_shutdown, join_woken, pc, page,
                   vacancies, idx, visited, applied, puts, gets, fetches,
                   dones, pages, actions, records, discarded, quota,
                   unvisited, test_runs, failed_fetches, call, outcome,
                   script, caught, hh_ok>>

\* A worker in queue.get() runs: it was just created, or a unit is queued.
guarded_worker_get(w) ==
    /\ pc[w] = "get"
    /\ queue # <<>> \/ is_shutdown
    /\ Commit(w, guarded_loop_top(Cfg(w)))

\* The listing request of a worker returns.
guarded_fetch_returns(w) ==
    /\ pc[w] = "fetch"
    /\ \E response \in PageResponses :
           Commit(w, guarded_after_fetch(Cfg(w), response))

\* The apply request of a worker of hh.py returns.
guarded_apply_returns(w) ==
    /\ pc[w] = "apply"
    /\ \E status \in HhApplyStatuses :
           Commit(w, hh_after_apply(Cfg(w), status))

\* The HH call of a worker of a Notion script returns.
guarded_hh_returns(w) ==
    /\ pc[w] = "hh"
    /\ \E response \in HhResponses :
           Commit(w, guarded_after_hh(Cfg(w), response))

\* The Notion request of a worker returns.
guarded_notion_returns(w) ==
    /\ pc[w] = "notion"
    /\ \E status \in NotionResponses :
           Commit(w, guarded_after_notion(Cfg(w), status))

\* A request of a worker raises, in the transport or in reading the
\* response: the except clause of the loop body catches it.
guarded_request_raises(w) ==
    /\ pc[w] \in Busy \cup {"hh"}
    /\ Commit(w, guarded_except(Cfg(w)))

GuardedNext ==
    \/ guarded_main_start
    \/ guarded_main_returns
    \/ guarded_fill_returns
    \/ guarded_fill_raises
    \/ main_cancel
    \/ main_gather
    \/ \E w \in Workers : guarded_worker_get(w)
    \/ \E w \in Workers : guarded_fetch_returns(w)
    \/ \E w \in Workers : guarded_apply_returns(w)
    \/ \E w \in Workers : guarded_hh_returns(w)
    \/ \E w \in Workers : guarded_notion_returns(w)
    \/ \E w \in Workers : guarded_request_raises(w)

GuardedSpec == GuardedInit /\ [][GuardedNext]_vars

----------------------------------------------------------------------------
\* What the properties speak of.

\* Page 0 was fetched with status 200 and reported its page count.
Reported == pages # <<>>

TotalPages == pages[1]

\* queue.join() in main has returned.
JoinReturned == mainpc \in {"gather", "done"}

\* The workers main created.
Created == 1..workers_num

\* apply_to_vacancy has raised HH_Limit_Exceeded_Error in some worker.
QuotaFired == quota.items # {}

\* A request has failed in the transport.
TransportFailed ==
    \E w \in Workers : pc[w] \in {"FetchError", "ApplyError", "NotionError"}

\* The worker that dequeued page p.
WorkerOf(p) == gets[p][1]

----------------------------------------------------------------------------
\* C1, as stated: once queue.join() has returned, every unit among pages
\* 0..P-1 has been marked done.
C1_JoinAfterAllDone ==
    JoinReturned /\ Reported =>
        \A p \in 0..(TotalPages - 1) : dones[p] >= 1

\* C1, amended: once queue.join() has returned, every unit among pages
\* 0..P-1 has been marked done or was dropped from the queue by
\* queue.shutdown(immediate=True); and whenever unit 0 is marked done after
\* page 0 reported P pages, the units 1..P-1 have been enqueued.
C1_JoinAfterDoneOrDiscarded ==
    /\ JoinReturned /\ Reported =>
           \A p \in 0..(TotalPages - 1) :
               (dones[p] = 1 /\ p \notin discarded)
                   \/ (dones[p] = 0 /\ p \in discarded)
    /\ dones[0] >= 1 /\ Reported =>
           \A p \in 1..(TotalPages - 1) : puts[p] # <<>>

\* C1, witness: join has returned in a run of two workers over three pages,
\* all of them marked done.
C1_Witness ==
    /\ JoinReturned /\ Reported /\ TotalPages = 3 /\ workers_num = 2
    /\ \A p \in 0..2 : dones[p] = 1

\* C2: no unit that was in the queue when apply_to_vacancy raised
\* HH_Limit_Exceeded_Error is ever dequeued, fetched or processed.
C2_QueuedAtSignalNeverProcessed ==
    \A p \in quota.queued :
        /\ gets[p] = <<>>
        /\ fetches[p] = 0
        /\ \A i \in Idxs : actions[p][i] = 0 /\ records[p][i] = 0
        /\ dones[p] = 0

\* C2, witness: a run has ended after a signal that found units queued.
C2_Witness ==
    mainpc = "done" /\ QuotaFired /\ quota.queued # {}

\* C3: an error other than the quota signal, raised while a worker
\* processes an item (by the apply or by the Notion request), does not end
\* the worker: it goes on with the page and with later pages.
C3_ItemErrorIsolated ==
    \A w \in Workers : pc[w] \notin {"ApplyError", "NotionError"}

\* C4: main enqueues unit 0 once; the units 1..P-1 of the page count P that
\* page 0 reported are each enqueued exactly once, by the worker that
\* processed page 0, and nothing else is ever enqueued.
C4_ExactlyOnceSeeding ==
    /\ puts[0] = IF mainpc = "start" THEN <<>> ELSE <<MainTask>>
    /\ Len(pages) <= 1
    /\ \A p \in Pages \ {0} :
           /\ Len(puts[p]) <= 1
           /\ puts[p] # <<>> =>
                  /\ Reported /\ p < TotalPages
                  /\ gets[0] # <<>> /\ puts[p][1] = WorkerOf(0)
    /\ Reported => \A p \in 1..(TotalPages - 1) : Len(puts[p]) = 1

\* C4, witness: the second of two workers processed page 0, which reported
\* three pages.
C4_Witness ==
    /\ Reported /\ TotalPages = 3 /\ workers_num = 2
    /\ puts[1] = <<2>> /\ puts[2] = <<2>>

\* C5: no unit is dequeued twice, no page is fetched twice, and no two
\* workers hold the same unit.
C5_DequeuedAtMostOnce ==
    /\ \A p \in Pages : Len(gets[p]) <= 1 /\ fetches[p] <= 1
    /\ \A v, w \in Workers :
           v # w /\ page[v] # NoPage => page[v] # page[w]

\* C5, witness: two workers are at work on two different pages.
C5_Witness ==
    \E v, w \in Workers :
        /\ v # w /\ pc[v] \in Busy /\ pc[w] \in Busy
        /\ page[v] # page[w]
        /\ fetches[page[v]] = 1 /\ fetches[page[w]] = 1

\* C6, as stated: no worker task ends with an exception it did not handle
\* when it finds the queue closed.
C6_NoWorkerEndsInException ==
    \A w \in Workers : pc[w] # "QueueShutDown"

\* C6, amended: a worker that finds the queue closed in queue.get() ends
\* with the QueueShutDown exception, which nothing in the worker catches; it
\* holds no unit then.  The worker that raised the quota signal always ends
\* so.  gather(return_exceptions=True) collects the exception: main ends
\* with every worker ended by QueueShutDown or by its cancellation.
C6_WorkersEndByQueueShutDown ==
    /\ \A w \in Workers :
           pc[w] = "QueueShutDown" =>
               is_shutdown /\ queue = <<>> /\ page[w] = NoPage
    /\ \A item \in quota.items : pc[WorkerOf(item.page)] = "QueueShutDown"
    /\ mainpc = "done" =>
           \A w \in Created : pc[w] \in {"QueueShutDown", "CancelledError"}

\* C6, witness: main has ended after both workers found the queue closed.
C6_Witness ==
    /\ mainpc = "done" /\ workers_num = 2
    /\ \A w \in Created : pc[w] = "QueueShutDown"

\* C7: the worker whose item raised the quota signal has issued one apply
\* request for that item, no Notion request for it, no request for any
\* later item of the page, and has marked the unit done exactly once, with
\* the queue shut down.
C7_FatalWorkerStopsPage ==
    \A item \in quota.items :
        /\ actions[item.page][item.idx] = 1
        /\ records[item.page][item.idx] = 0
        /\ \A j \in Idxs :
               j > item.idx =>
                   actions[item.page][j] = 0 /\ records[item.page][j] = 0
        /\ dones[item.page] = 1
        /\ is_shutdown

\* C7, witness: the signal was raised by an item that was not the last of
\* its page.
C7_Witness ==
    \E item \in quota.items : item.idx + 1 < item.n

\* C8, as stated: after the first quota signal the run's count of apply
\* requests stays what it was with the fatal item's request.
C8_ActionsCapAtSignal ==
    QuotaFired => TotalActions(actions) = TotalActions(quota.actions)

\* C8, amended: after the first quota signal no apply request is issued
\* for any page but those other workers held at that moment (they go on
\* with the rest of their page); with one worker the count is capped.
C8_ActionsOnlyOnHeldPages ==
    QuotaFired =>
        /\ \A p \in Pages \ quota.held : actions[p] = quota.actions[p]
        /\ workers_num = 1 => actions = quota.actions

\* C8, witness: a run has ended in which a worker that held another page
\* at the first signal issued an apply request after it.
C8_Witness ==
    /\ mainpc = "done" /\ QuotaFired
    /\ \E p \in quota.held : ActionsOf(actions, p) > ActionsOf(quota.actions, p)

\* The scenario of C9: page 0 reported three pages and the only item of
\* page 1 raised the quota signal.
C9_Scenario ==
    /\ Reported /\ TotalPages = 3
    /\ [page |-> 1, idx |-> 0, n |-> 1] \in quota.items

\* C9, as stated: in the scenario, page 2 is never fetched.
C9_Page2NeverFetched ==
    C9_Scenario => fetches[2] = 0

\* C9, amended: in the scenario, page 2 is not fetched after the signal,
\* and with one worker it is never fetched.
C9_Page2NotFetchedAfterSignal ==
    C9_Scenario =>
        /\ fetches[2] = quota.fetches[2]
        /\ workers_num = 1 => fetches[2] = 0

\* C9, witness: the scenario, run to its end by one worker.
C9_Witness ==
    C9_Scenario /\ workers_num = 1 /\ mainpc = "done"

\* A run has ended normally: main has returned, every unit that was put
\* has been marked done, and every worker has ended by its cancellation.
NormalEnd ==
    /\ mainpc = "done"
    /\ unfinished_tasks = 0
    /\ \A p \in Pages : dones[p] = Len(puts[p])
    /\ \A w \in Created : pc[w] = "CancelledError"

\* C10: a run without a quota signal in which every request returns comes
\* to its normal end.  Short of that end some task can always take a step
\* (and every step adds to the calls and endings the history counts, which
\* the page and item counts bound, so the steps run out); and once
\* queue.join() has returned, every unit that was put is marked done and
\* every worker is cancelled.
C10_NormalCompletion ==
    ~QuotaFired /\ ~TransportFailed =>
        /\ NormalEnd \/ ENABLED Next
        /\ JoinReturned =>
               /\ unfinished_tasks = 0
               /\ \A p \in Pages : dones[p] = Len(puts[p])
               /\ \A w \in Created : pc[w] = "CancelledError"

\* C10, witness: the normal end of a run of two workers over three pages.
C10_Witness ==
    /\ NormalEnd /\ ~QuotaFired /\ workers_num = 2
    /\ Reported /\ TotalPages = 3

\* C11: a run in which the quota signal fired and every request returns
\* comes to main's end.  Short of that end some task can always take a
\* step; no worker fails in task_done; and once queue.join() has returned
\* the queue is empty, no unit is left unfinished and every worker has
\* ended by QueueShutDown or by main's cancellation, which gather absorbs.
C11_QuotaRunEnds ==
    QuotaFired /\ ~TransportFailed =>
        /\ mainpc = "done" \/ ENABLED Next
        /\ \A w \in Created : pc[w] # "ValueError"
        /\ JoinReturned =>
               /\ queue = <<>> /\ unfinished_tasks = 0
               /\ \A w \in Created :
                      pc[w] \in {"QueueShutDown", "CancelledError"}

\* C11, witness: main has returned in a run of two workers in which the
\* first signal found a unit queued and the other worker holding a unit.
C11_Witness ==
    /\ mainpc = "done" /\ QuotaFired /\ workers_num = 2
    /\ quota.queued # {} /\ quota.held # {}
    /\ \A w \in Created : pc[w] = "QueueShutDown"

\* C12: when the finished event has woken queue.join(), every worker is
\* suspended in queue.get() or has ended, so the cancellation reaches no
\* worker inside a request: a cancelled worker holds no unit.
C12_CancelledOnlyInGet ==
    /\ join_woken /\ mainpc = "join" =>
           \A w \in Created : pc[w] \in {"get"} \cup Terminated
    /\ \A w \in Workers : pc[w] = "CancelledError" => page[w] = NoPage

\* C12, witness: main has cancelled two workers after three pages on
\* which apply and Notion requests were issued.
C12_Witness ==
    /\ mainpc = "gather" /\ workers_num = 2
    /\ \A w \in Created : pc[w] = "CancelledError"
    /\ Reported /\ TotalPages = 3
    /\ TotalActions(actions) >= 2 /\ TotalRecords(records) >= 1

\* The pages on which an item raised the quota signal.
QuotaPages == {item.page : item \in quota.items}

\* C13, as stated: a worker that held another unit at the first signal is
\* not cancelled while it holds it; when it has left the page it has
\* visited every item and marked the unit done; and every unit it ever
\* dequeued, it dequeued before the signal.
C13_HeldWorkerFinishesPage ==
    QuotaFired =>
        \A p \in quota.held :
            LET w == WorkerOf(p)
            IN /\ page[w] = p => pc[w] \notin {"CancelledError", "QueueShutDown"}
               /\ page[w] # p => dones[p] = 1 /\ unvisited[p] = 0
               /\ \A q \in Pages :
                      gets[q] # <<>> /\ WorkerOf(q) = w => quota.fetches[q] = 1

\* C13, amended: as above, but the worker leaves the page early when an
\* item of its own raises the quota signal; it then stops at that item and
\* still marks the unit done.
C13_HeldWorkerFinishesOrBreaks ==
    QuotaFired =>
        \A p \in quota.held :
            LET w == WorkerOf(p)
            IN /\ page[w] = p => pc[w] \notin {"CancelledError", "QueueShutDown"}
               /\ page[w] # p =>
                      /\ dones[p] = 1
                      /\ pc[w] = "QueueShutDown"
                      /\ \/ unvisited[p] = 0
                         \/ \E item \in quota.items :
                                /\ item.page = p
                                /\ unvisited[p] = item.n - item.idx - 1
               /\ \A q \in Pages :
                      gets[q] # <<>> /\ WorkerOf(q) = w => quota.fetches[q] = 1

\* C13, witness: a run has ended in which a worker that held another page
\* of two items at the first signal, with its first apply request in
\* flight, went through the page and marked it done.
C13_Witness ==
    /\ mainpc = "done" /\ QuotaFired
    /\ \E p \in quota.held \ QuotaPages :
           /\ quota.actions[p][0] = 1 /\ quota.actions[p][1] = 0
           /\ actions[p][1] = 1
           /\ dones[p] = 1 /\ unvisited[p] = 0

\* C14: in a run without a quota signal in which every request returns,
\* some task can always take a step until main has returned; no unit is
\* dequeued, fetched or marked done twice, and none beyond page P-1 is
\* dequeued; and once queue.join() has returned, every unit 0..P-1 has
\* been dequeued, fetched and marked done once.
C14_EveryUnitOnce ==
    ~QuotaFired /\ ~TransportFailed =>
        /\ mainpc = "done" \/ ENABLED Next
        /\ \A p \in Pages :
               /\ Len(gets[p]) <= 1 /\ dones[p] <= 1
               /\ fetches[p] = IF search \in SearchType THEN Len(gets[p])
                               ELSE 0
        /\ Reported => \A p \in Pages : p >= TotalPages /\ p > 0 => gets[p] = <<>>
        /\ JoinReturned /\ Reported =>
               \A p \in 0..(TotalPages - 1) :
                   Len(gets[p]) = 1 /\ fetches[p] = 1 /\ dones[p] = 1

\* C14, witness: main has returned in a run of three pages without a
\* quota signal, in which both workers dequeued units.
C14_Witness ==
    /\ mainpc = "done" /\ ~QuotaFired /\ ~TransportFailed
    /\ Reported /\ TotalPages = 3
    /\ \A p \in 0..2 : Len(gets[p]) = 1 /\ fetches[p] = 1 /\ dones[p] = 1
    /\ WorkerOf(1) # WorkerOf(2)

\* C15: a Notion request in flight is for an item whose apply request was
\* issued in this pass and answered 201, with Notion enabled and no test
\* run; no item has more Notion requests than apply requests, nor more
\* than one; none is issued with Notion disabled or in a test run, for an
\* item that raised the quota signal, or for an item the loop skipped.
C15_RecordOnlyAfterApplied ==
    /\ \A w \in Workers :
           pc[w] = "notion" =>
               /\ notion_enabled /\ ~test_run
               /\ applied[w] # None /\ applied[w][1].status = 201
               /\ visited[w][idx[w] + 1] = "apply"
               /\ actions[page[w]][idx[w]] = 1
               /\ records[page[w]][idx[w]] = 1
    /\ \A p \in Pages : \A i \in Idxs :
           records[p][i] <= actions[p][i] /\ records[p][i] <= 1
    /\ ~notion_enabled \/ test_run => records = ZeroItems
    /\ \A item \in quota.items : records[item.page][item.idx] = 0
    /\ \A w \in Workers : \A i \in 1..Len(visited[w]) :
           visited[w][i] # "apply" => records[page[w]][i - 1] = 0

\* C15, witness: a worker has its Notion request in flight for the second
\* item of its page, answered 201, after a first item whose apply request
\* got no Notion request.
C15_Witness ==
    \E w \in Workers :
        /\ pc[w] = "notion" /\ idx[w] = 1
        /\ applied[w] # None /\ applied[w][1].status = 201
        /\ actions[page[w]][0] = 1 /\ records[page[w]][0] = 0
        /\ records[page[w]][1] = 1

\* C16: in a test run no apply request and no Notion request is ever
\* issued, so no quota signal is raised; while no request fails in the
\* transport some task can always take a step until main has returned;
\* and once queue.join() has returned every page 0..P-1 has been fetched,
\* its loop has visited every item, and its unit is marked done.
C16_TestRunIssuesNothing ==
    test_run =>
        /\ actions = ZeroItems /\ records = ZeroItems
        /\ \A w \in Workers : pc[w] \notin {"apply", "notion"}
        /\ ~QuotaFired /\ ~is_shutdown
        /\ ~TransportFailed => mainpc = "done" \/ ENABLED Next
        /\ JoinReturned /\ Reported =>
               \A p \in 0..(TotalPages - 1) :
                   fetches[p] = 1 /\ dones[p] = 1 /\ unvisited[p] = 0

\* C16, witness: main has returned in a test run of three pages, each
\* fetched and marked done, on which four items were logged as TEST RUN.
C16_Witness ==
    /\ test_run /\ mainpc = "done"
    /\ Reported /\ TotalPages = 3
    /\ \A p \in 0..2 : fetches[p] = 1 /\ dones[p] = 1
    /\ Sum(test_runs) = 4

\* C17: for every item a worker's loop has visited on the page it holds:
\* an item the word blacklist matches was logged as skipped for words,
\* whether or not the id blacklist matches it too; an item only the id
\* blacklist matches was logged as skipped for its id; an item neither
\* matches was not skipped for a blacklist; and an item skipped for a
\* blacklist has no apply request and no Notion request.
C17_WordsBeforeIds ==
    \A w \in Workers :
        /\ Len(visited[w]) <= Len(vacancies[w])
        /\ \A i \in 1..Len(visited[w]) :
               LET vacancy == vacancies[w][i]
               IN /\ vacancy.words => visited[w][i] = "words"
                  /\ ~vacancy.words /\ vacancy.ids => visited[w][i] = "ids"
                  /\ ~vacancy.words /\ ~vacancy.ids =>
                         visited[w][i] \in {"apply", "TEST RUN"}
                  /\ visited[w][i] \in {"words", "ids"} =>
                         /\ actions[page[w]][i - 1] = 0
                         /\ records[page[w]][i - 1] = 0

\* C17, witness: two workers each have the apply request of the second
\* item of their page in flight; the first item of the one matched both
\* blacklists and was skipped for words, the first item of the other
\* matched only the id blacklist and was skipped for its id.
C17_Witness ==
    /\ \A w \in 1..2 : pc[w] = "apply" /\ idx[w] = 1
    /\ vacancies[1][1] = [words |-> TRUE, ids |-> TRUE]
    /\ visited[1] = <<"words", "apply">>
    /\ vacancies[2][1] = [words |-> FALSE, ids |-> TRUE]
    /\ visited[2] = <<"ids", "apply">>

\* C18: a page whose listing request got a status other than 200 has no
\* apply and no Notion request, raised no quota signal, is held by no
\* worker and is marked done (page 0 then reports no page count); the
\* queue is shut down by a quota signal only; after such a page, while no
\* request fails in the transport, some task can always take a step until
\* main has returned; and once queue.join() has returned every unit that
\* was put is marked done, or was dropped by the shutdown of a quota
\* signal.
C18_FailedFetchIsEmptyPage ==
    /\ \A p \in failed_fetches :
           /\ actions[p] = [i \in Idxs |-> 0]
           /\ records[p] = [i \in Idxs |-> 0]
           /\ p \notin QuotaPages
           /\ \A w \in Workers : page[w] # p
           /\ fetches[p] = 1 /\ dones[p] = 1 /\ unvisited[p] = 0
           /\ p = 0 => ~Reported
    /\ is_shutdown => QuotaFired
    /\ failed_fetches # {} =>
           /\ ~TransportFailed => mainpc = "done" \/ ENABLED Next
           /\ JoinReturned =>
                  \A q \in Pages :
                      \/ dones[q] = Len(puts[q])
                      \/ QuotaFired /\ q \in discarded /\ dones[q] = 0

\* C18, witness: main has returned in a run of three pages without a
\* quota signal in which the listing request of page 1 got a status other
\* than 200; the three units are marked done and apply requests were
\* issued on pages 0 and 2.
C18_Witness ==
    /\ mainpc = "done" /\ ~QuotaFired
    /\ failed_fetches = {1}
    /\ Reported /\ TotalPages = 3
    /\ \A p \in 0..2 : dones[p] = 1
    /\ ActionsOf(actions, 0) >= 1 /\ ActionsOf(actions, 2) >= 1

\* C19, as stated: a listing or apply request that fails in the transport
\* does not end the worker, no ended worker is left holding a unit, and
\* short of main's return some task can always take a step.
C19_TransportFailureIsSoft ==
    /\ \A w \in Workers : pc[w] \notin {"FetchError", "ApplyError"}
    /\ \A w \in Workers : pc[w] \in Terminated => page[w] = NoPage
    /\ mainpc = "done" \/ ENABLED Next

\* C20: right after a worker's Notion request for item i of page p got a
\* status other than 200, the item has its one apply request and its one
\* Notion request, and the worker has gone on: it is at the apply request
\* of a later item of p, or it has visited the page to its end, marked the
\* unit done and gone back to queue.get().  No item ever has more than one
\* apply request, and the queue is shut down by a quota signal only.
C20_NotionFailureOnlyLogged ==
    /\ notion_error # NoError =>
           LET w == notion_error.self
               p == notion_error.page
               i == notion_error.idx
           IN /\ actions[p][i] = 1 /\ records[p][i] = 1
              /\ [page |-> p, idx |-> i] \notin
                     {[page |-> item.page, idx |-> item.idx] :
                          item \in quota.items}
              /\ \/ page[w] = p /\ pc[w] = "apply" /\ idx[w] > i
                 \/ /\ page[w] # p
                    /\ dones[p] = 1 /\ unvisited[p] = 0
                    /\ pc[w] \in {"get", "fetch", "QueueShutDown"}
    /\ \A p \in Pages : \A i \in Idxs : actions[p][i] <= 1
    /\ is_shutdown => QuotaFired /\ discarded = quota.queued

\* C20, witness: the Notion request for the first item of a page has just
\* got a status other than 200, and the worker has the apply request of
\* the second item in flight.
C20_Witness ==
    /\ notion_error # NoError /\ notion_error.idx = 0
    /\ LET w == notion_error.self
       IN /\ page[w] = notion_error.page
          /\ pc[w] = "apply" /\ idx[w] = 1
          /\ ~is_shutdown

C22_OneRecordPerAction ==
    /\ \A p \in Pages : \A i \in Idxs :
           actions[p][i] <= 1 /\ records[p][i] <= actions[p][i]
    /\ \A w \in Workers :
           pc[w] = "notion" =>
               /\ actions[page[w]][idx[w]] = 1
               /\ records[page[w]][idx[w]] = 1
               /\ applied[w] # None
               /\ apply_to_vacancy(applied[w][1]).returns = Some("url")
    /\ \A v, w \in Workers :
           v # w /\ page[v] # NoPage => page[v] # page[w]

\* C22, witness: main has returned in a run in which both items of page 0
\* and both items of page 1 have their one apply request and their one
\* Notion request.
C22_Witness ==
    /\ mainpc = "done"
    /\ \A p \in 0..1 : \A i \in Idxs : actions[p][i] = 1 /\ records[p][i] = 1

\* The units that are dequeued and not marked done: those the workers hold.
Held == {page[w] : w \in {v \in Workers : page[v] # NoPage}}

\* C25: the queue's unfinished count is the number of units queued plus
\* the number of units dequeued and not marked done, in every state, the
\* states after queue.shutdown(immediate=True) included; and no task_done
\* finds the count at zero.
C25_PendingCount ==
    /\ unfinished_tasks = Len(queue) + Cardinality(Held)
    /\ \A p \in Pages :
           Len(gets[p]) - dones[p] = IF p \in Held THEN 1 ELSE 0
    /\ \A w \in Workers : pc[w] # "ValueError"

\* C25, witness: the worker of a quota signal has shut the queue down with
\* a unit queued, marked its own unit done and ended, while the other
\* worker holds a unit: the count is one.
C25_Witness ==
    /\ QuotaFired /\ quota.queued # {} /\ quota.held # {}
    /\ unfinished_tasks = 1 /\ Cardinality(Held) = 1
    /\ \E item \in quota.items : dones[item.page] = 1

\* C26: every put precedes every apply request and so every shutdown: once
\* an apply request has been issued, or the queue is shut down, page 0 has
\* reported its count P and the units 1..P-1 have all been put; a worker
\* that ended by QueueShutDown got it from queue.get(), holding no unit.
C26_NoPutAfterShutdown ==
    /\ TotalActions(actions) > 0 \/ is_shutdown =>
           /\ Reported
           /\ \A p \in 1..(TotalPages - 1) : Len(puts[p]) = 1
    /\ \A w \in Workers : pc[w] = "QueueShutDown" => page[w] = NoPage

\* C26, witness: the queue is shut down by the first item of page 0 while
\* the other worker has page 1 of three in its listing request.
C26_Witness ==
    /\ is_shutdown /\ Reported /\ TotalPages = 3
    /\ [page |-> 0, idx |-> 0, n |-> 1] \in quota.items
    /\ \E w \in Workers : page[w] = 1 /\ pc[w] = "fetch"
    /\ 2 \in discarded

\* C27: every item that raised the quota signal ended its page there, and
\* its unit is marked done once; from the first signal on the queue is
\* shut down and empty, so a later shutdown drops nothing; no worker fails in task_done or in the shutdown; while
\* no request fails in the transport some task can always take a step
\* until main has returned; and when queue.join() has returned the count
\* is zero.
C27_EveryQuotaWorkerMarksDone ==
    /\ \A item \in quota.items :
           /\ dones[item.page] = 1
           /\ unvisited[item.page] = item.n - item.idx - 1
           /\ \A w \in Workers : page[w] # item.page
           /\ \A i \in Idxs : i > item.idx => actions[item.page][i] = 0
    /\ QuotaFired =>
           /\ is_shutdown /\ queue = <<>>
           /\ discarded = quota.queued
           /\ \A w \in Workers : pc[w] # "ValueError"
           /\ ~TransportFailed => mainpc = "done" \/ ENABLED Next
           /\ JoinReturned => unfinished_tasks = 0

\* C27, witness: main has returned in a run in which two workers raised
\* the signal, each on its own page, the second with nothing queued.
C27_Witness ==
    /\ mainpc = "done" /\ Cardinality(QuotaPages) = 2
    /\ Cardinality(quota.queued) = 1
    /\ \A p \in QuotaPages : dones[p] = 1

\* C29: every unit dequeued and not marked done is the unit one worker
\* holds, no two workers hold the same unit, and there are at most
\* workers_num of them; a worker main did not create holds none.
C29_BoundedConcurrency ==
    /\ \A p \in Pages :
           Len(gets[p]) - dones[p] = Cardinality({w \in Workers : page[w] = p})
    /\ \A p \in Pages : Cardinality({w \in Workers : page[w] = p}) <= 1
    /\ Cardinality({p \in Pages : Len(gets[p]) > dones[p]}) <= workers_num
    /\ \A w \in Workers \ Created : page[w] = NoPage /\ pc[w] = "idle"

\* C29, witness: each of two workers holds a unit, with a third queued.
C29_Witness ==
    /\ workers_num = 2
    /\ \A w \in Created : page[w] # NoPage
    /\ page[1] # page[2]
    /\ queue # <<>>

\* C30: when page 0 reported a page count of 0 or 1, no other unit is
\* ever put or dequeued; while no request fails in the transport some
\* task can always take a step until main has returned; and when
\* queue.join() has returned unit 0 has been dequeued and marked done
\* once.
C30_OnePageRun ==
    Reported /\ TotalPages <= 1 =>
        /\ \A p \in Pages \ {0} : puts[p] = <<>> /\ gets[p] = <<>>
        /\ puts[0] = <<MainTask>> /\ Len(gets[0]) = 1
        /\ discarded = {}
        /\ ~TransportFailed => mainpc = "done" \/ ENABLED Next
        /\ JoinReturned => dones[0] = 1 /\ unfinished_tasks = 0

\* C30, witness: main has returned in a run of two workers in which
\* page 0 reported a page count of 0 and had two apply requests.
C30_Witness ==
    /\ mainpc = "done" /\ workers_num = 2
    /\ Reported /\ TotalPages = 0
    /\ ActionsOf(actions, 0) = 2 /\ dones[0] = 1

\* get_vacancies_response has returned None for page 0: its request got a
\* status other than 200, or `search` is no member of SearchType.
PageZeroFailed ==
    \/ 0 \in failed_fetches
    \/ search \notin SearchType /\ gets[0] # <<>>

\* C28: once get_vacancies_response has returned None for page 0, no page
\* count is reported and no other unit is ever put; unit 0 is marked done
\* and no worker holds a unit or has a request in flight; no apply and no
\* Notion request is ever issued and no quota signal raised; some task
\* can always take a step until main has returned; and when queue.join()
\* has returned every worker has ended by main's cancellation.
C28_PageZeroFails ==
    PageZeroFailed =>
        /\ ~Reported
        /\ \A p \in Pages \ {0} : puts[p] = <<>> /\ gets[p] = <<>>
        /\ Len(gets[0]) = 1 /\ dones[0] = 1 /\ unfinished_tasks = 0
        /\ \A w \in Workers : page[w] = NoPage /\ pc[w] \notin Busy
        /\ actions = ZeroItems /\ records = ZeroItems
        /\ ~QuotaFired /\ ~is_shutdown /\ ~TransportFailed
        /\ mainpc = "done" \/ ENABLED Next
        /\ JoinReturned => \A w \in Created : pc[w] = "CancelledError"

\* C28, witness: main has returned in a run of two workers in which the
\* listing request of page 0 got a status other than 200.
C28_Witness ==
    /\ mainpc = "done" /\ workers_num = 2
    /\ 0 \in failed_fetches
    /\ dones[0] = 1 /\ fetches = [Zero EXCEPT ![0] = 1]

----------------------------------------------------------------------------
\* The units dequeued in the run, over all pages.
Dequeued == Sum([p \in Pages |-> Len(gets[p])])

----------------------------------------------------------------------------
\* C24, as stated: in the pre-seeded variant, once a worker has observed
\* limit-exceeded (and no request has failed in the transport), no worker
\* dequeues a further unit, and the run goes on until main is done: main's
\* queue.join() returns.
C24_QuotaHaltsAllWork ==
    (QuotaFired /\ ~TransportFailed)
        => /\ \A p \in Pages : fetches[p] = quota.fetches[p]
           /\ mainpc = "done" \/ ENABLED PreseededNext

----------------------------------------------------------------------------
\* What main ends with in a script of the try/finally kind: its return, or
\* the exception of fill_queue's request.
GuardedEnd == mainpc \in {"done", "FillError"}

\* C31: in hh.py, process_rejection.py, remove_applies.py and
\* add_manual_applies.py every dequeued unit is marked done exactly once,
\* whether its processing completes or raises: a unit is dequeued at most
\* once and marked done only when dequeued, it is marked done once no
\* worker holds it, and so is a unit whose except clause ran.  The worker
\* keeps looping: until main cancels it, it waits in queue.get() or for a
\* request.  And queue.join() returns: short of main's end some task can
\* always step, main does not wait in join() once every unit is dequeued
\* and no worker holds one, and once join() has returned every unit that
\* was put is marked done.
C31_GuardedUnitDoneOnce ==
    /\ \A p \in Pages :
           /\ Len(gets[p]) <= 1
           /\ dones[p] <= Len(gets[p])
           /\ (gets[p] # <<>> /\ \A w \in Workers : page[w] # p) => dones[p] = 1
           /\ p \in caught => dones[p] = 1
    /\ mainpc = "join" =>
           \A w \in Created : pc[w] \in {"get", "hh"} \cup Busy
    /\ GuardedEnd \/ ENABLED GuardedNext
    /\ (mainpc = "join" /\ queue = <<>>
            /\ \A w \in Created : pc[w] = "get") => join_woken
    /\ JoinReturned =>
           /\ unfinished_tasks = 0
           /\ \A p \in Pages : dones[p] = Len(puts[p])

\* C31, witness: the end of a run of remove_applies.py in which the one
\* worker caught an exception on the first of three units and went on to
\* dequeue the other two and mark them done.
C31_Witness ==
    /\ script = "remove_applies" /\ mainpc = "done" /\ workers_num = 1
    /\ 0 \in caught
    /\ \A p \in 0..2 : gets[p] = <<1>> /\ dones[p] = 1

\* C32: in remove_applies.py and process_rejection.py the Notion write of
\* a queued page is issued at most once, after the HH call of that page,
\* and only when that call returned the success shape (204 for the delete,
\* 200 with the state 'discard' for the rejection check): the page of a
\* failed HH call, or of one that raised, gets no Notion write.
C32_NotionWriteOnlyAfterSuccess ==
    script \in NotionScripts =>
        /\ \A p \in Pages :
               /\ Sum(records[p]) <= 1
               /\ Sum(records[p]) = 1 => p \in hh_ok /\ fetches[p] = 1
               /\ fetches[p] <= 1
        /\ \A w \in Workers :
               pc[w] = "notion" => page[w] \in hh_ok /\ records[page[w]][0] = 1

\* C32, witness: the end of a run of process_rejection.py in which the HH
\* call of one page returned 200 with 'discard' and that page got its
\* Notion write, and the HH call of another failed and that page got none.
C32_Witness ==
    /\ script = "process_rejection" /\ mainpc = "done"
    /\ 0 \in hh_ok /\ records[0][0] = 1
    /\ 1 \notin hh_ok /\ fetches[1] = 1 /\ dones[1] = 1 /\ Sum(records[1]) = 0

====
